---- MODULE Spec2Model ----
(***************************************************************************)
(* A model of the MPQ archive reader: Archive::open, Archive::open_file,   *)
(* Archive::read_user_data, File::read and the Chain overlay.              *)
(*                                                                         *)
(* Sizes, offsets, flags and table indices are the program's numbers       *)
(* (u32 arithmetic, wrapping or panicking as the build decides).  The      *)
(* CONTENT of data sectors is symbolic: a buffer filled by read_exact is   *)
(* the disk range it came from, tagged with the key it was decrypted       *)
(* with; what a range decodes or hashes to is a property of the disk       *)
(* image.  A u32 word on disk is its plaintext value together with the     *)
(* key and stream index it is encrypted under.                             *)
(***************************************************************************)
EXTENDS Integers, Sequences, FiniteSets, TLC

\* ---------------------------------------------------------------- bounds

\* log2 of the number of hash-table slots of the probed archives
HashShift == 2
\* number of 0x200-byte blocks of the files given to Archive::open
MaxBlocks == 3

\* ------------------------------------------------------ program constants

HEADER_SIZE_V1 == 32
USER_HEADER_SIZE == 16
FILE_IMPLODE == 256
FILE_COMPRESS == 512
FILE_ENCRYPTED == 65536
FILE_FIX_KEY == 131072
FILE_PATCH_FILE == 1048576
FILE_SINGLE_UNIT == 16777216
FILE_SECTOR_CRC == 67108864
FILE_COMPRESS_MASK == 65280
COMPRESSION_ZLIB == 2
\* the step of the header scan, `offset += 0x200`
SCAN_STEP == 512
\* `512 << header.sector_size_shift`
SECTOR_BASE == 512
\* mem::size_of::<Hash>() and mem::size_of::<Block>()
ENTRY_SIZE == 16

\* The modulus of u32 arithmetic.  TLC's integers are 32-bit signed,
\* so the model's u32 has 30 bits: every flag fits, 0 - 1 wraps to the
\* largest value, and the two largest values are the hash-table sentinels.
U32 == 2^30
NoKey == 0 - 1
None == "None"

\* ------------------------------------------------------------- arithmetic

RECURSIVE BitAnd(_, _)
BitAnd(a, b) ==
  IF a = 0 \/ b = 0 THEN 0
  ELSE (a % 2) * (b % 2) + 2 * BitAnd(a \div 2, b \div 2)

RECURSIVE BitXor(_, _)
BitXor(a, b) ==
  IF a = 0 THEN b
  ELSE IF b = 0 THEN a
  ELSE ((a + b) % 2) + 2 * BitXor(a \div 2, b \div 2)

Min(a, b) == IF a < b THEN a ELSE b

\* `flags & F != 0`
HasFlag(flags, f) == BitAnd(flags, f) # 0

\* ------------------------------------------------------------------ crypt

\* Stand-in for the bytes a word turns into under the stream cipher with a
\* key that is not the one it was encrypted with: never the word itself.
Scramble(v, k, i) == (v + ((k + 7 * i + 1) % (U32 - 1)) + 1) % U32

\* The value read_u32 sees for a disk word that is not decrypted.
RawValue(w) == IF w.k = NoKey THEN w.v ELSE Scramble(w.v, w.k, w.i)

\* decrypt(buf, key) on a run of words: word j (0-based) comes out as its
\* plaintext when it was encrypted under `key` at stream index j.
decrypt(ws, key) ==
  [j \in 1..Len(ws) |->
     IF ws[j].k = key /\ ws[j].i = j - 1
     THEN [v |-> ws[j].v, k |-> NoKey, i |-> 0]
     ELSE [v |-> Scramble(RawValue(ws[j]), key, j - 1), k |-> NoKey, i |-> 0]]

\* decrypt on a data buffer: the buffer [at, n, key] is the disk range
\* [at, at + n) as decrypted with key (NoKey: as read).
decryptData(d, key) == [d EXCEPT !.key = key]

\* hash_string(filename, seed): a file name is given by its four hashes.
hash_string(filename, seed) ==
  CASE seed = 0 -> filename.h0
    [] seed = 256 -> filename.ha
    [] seed = 512 -> filename.hb
    [] seed = 768 -> filename.hk

\* ------------------------------------------------------------ disk images

\* A disk image is the file Archive::open is given:
\*   len      its length in bytes
\*   magic    what the 4 bytes at a position are: "A" for MPQ\x1A, "B" for
\*            MPQ\x1B, "X" for anything else (positions left out: "X")
\*   ud       the fields of the user-data header found where magic is "B"
\*   hdr      the fields of the archive header found where magic is "A"
\*   hash_at, block_at   where the (encrypted) tables lie; hash, block:
\*            what they decrypt to
\*   words    the u32 words of sector-offset tables and checksum sectors
\*   sectors  the data units: [at, len, key, codec, method, plain, sum]
Slots == 2^HashShift
EMPTY == U32 - 1
DELETED == U32 - 2

Hash(a, b, bi) ==
  [hash_a |-> a, hash_b |-> b, locale |-> 0, platform |-> 0, block_index |-> bi]

Block(off, packed, unpacked, flags) ==
  [offset |-> off, packed_size |-> packed, unpacked_size |-> unpacked, flags |-> flags]

\* The name the archives are probed with, by start slot, and a name no
\* archive holds.
NameOf(s) == [h0 |-> s, ha |-> 11, hb |-> 21, hk |-> 5]
Absent == [h0 |-> 0, ha |-> 13, hb |-> 23, hk |-> 6]
Names == {NameOf(s) : s \in 0..Slots} \cup {Absent}

SlotKinds ==
  { Hash(11, 21, 0), Hash(11, 22, 1), Hash(12, 22, 1),
    Hash(EMPTY, EMPTY, EMPTY), Hash(EMPTY, EMPTY, DELETED),
    Hash(11, 21, EMPTY), Hash(11, 21, DELETED) }

Fillers == { Hash(EMPTY, EMPTY, EMPTY), Hash(12, 22, 1) }

\* Hash tables: a filler in every slot but at most two.
ProbeTables ==
  { [i \in 1..Slots |-> IF i = p1 THEN k1 ELSE IF i = p2 THEN k2 ELSE f] :
      p1 \in 1..Slots, p2 \in 1..Slots, k1 \in SlotKinds, k2 \in SlotKinds,
      f \in Fillers }

Unit(at, len, key, codec, method, plain, sum) ==
  [at |-> at, len |-> len, key |-> key, codec |-> codec, method |-> method,
   plain |-> plain, sum |-> sum]

Header(count, blocks, shift) ==
  [hash_table_offset |-> HEADER_SIZE_V1,
   block_table_offset |-> HEADER_SIZE_V1 + ENTRY_SIZE * count,
   hash_table_count |-> count, block_table_count |-> blocks,
   sector_size_shift |-> shift]

\* Where the first file's data starts, relative to the archive base.
DataOff(count, blocks) == HEADER_SIZE_V1 + ENTRY_SIZE * count + ENTRY_SIZE * blocks

NoWords == [p \in {} |-> 0]

\* Archives that differ in their hash table: two stored single-unit files.
ProbeImage(t) ==
  LET d == DataOff(Slots, 2) IN
  [len |-> d + 16,
   magic |-> [p \in {0} |-> "A"],
   ud |-> [user_data_size |-> 0, header_offset |-> 0],
   hdr |-> Header(Slots, 2, 0),
   hash_at |-> HEADER_SIZE_V1,
   block_at |-> HEADER_SIZE_V1 + ENTRY_SIZE * Slots,
   hash |-> t,
   block |-> << Block(d, 3, 3, FILE_SINGLE_UNIT), Block(d + 8, 5, 5, FILE_SINGLE_UNIT) >>,
   words |-> NoWords,
   sectors |-> { Unit(d, 3, NoKey, "raw", 0, 3, 301), Unit(d + 8, 5, NoKey, "raw", 0, 5, 302) }]

ProbeImages == { ProbeImage(t) : t \in ProbeTables }

\* Archives that differ in their one file, stored under NameOf(0):
\*   base    where the archive starts in the file: at 0, or at 0x200
\*           behind a user-data header
\*   flags, unpacked   the block's
\*   store   how a COMPRESS file's sectors are packed: "raw", "zlib" or
\*           "bzip2" (a unit of 8 bytes or fewer is never packed), or
\*           "zlib_all": every sector packed, also when that makes it longer
\*   crc     the checksum sector: "good", "zero", "bad0" (sector 0 wrong),
\*           "bad1" (sector 1 wrong), "cipher" (taken before decryption)
\*   tail    the last word of an encrypted sector table, the end of the
\*           checksum sector, is stored in the clear
\*   cut     the file ends one byte short of the block's last byte
FileParams ==
  [base : {0, SCAN_STEP},
   enc : {0, FILE_ENCRYPTED, FILE_ENCRYPTED + FILE_FIX_KEY},
   comp : {0, FILE_IMPLODE, FILE_COMPRESS, FILE_COMPRESS + FILE_IMPLODE},
   patch : {0, FILE_PATCH_FILE}, single : {0, FILE_SINGLE_UNIT},
   sums : {0, FILE_SECTOR_CRC},
   unpacked : {0, 1, SECTOR_BASE, SECTOR_BASE + 1},
   store : {"raw", "zlib", "bzip2", "zlib_all"},
   crc : {"good", "zero", "bad0", "bad1", "cipher"},
   tail : BOOLEAN,
   cut : BOOLEAN]

\* The parameters that make a difference to the file they describe.
Canonical(p) ==
  /\ (p.comp = 0 => p.store = "raw")
  /\ (p.comp = 0 \/ p.sums = 0 \/ p.single # 0 => p.crc = "good")
  /\ (p.enc = 0 \/ p.comp = 0 \/ p.sums = 0 \/ p.single # 0 => ~p.tail)
  \* files packed at a loss: sectored, whole, without checksums, their last
  \* sector shorter than its packed form
  /\ (p.store = "zlib_all" =>
        /\ p.single = 0 /\ p.patch = 0 /\ p.sums = 0 /\ ~p.cut
        /\ p.unpacked \in {1, SECTOR_BASE + 1})

\* the length on disk of a packed unit
PackedLen == 8

\* The checksum of a buffer that is not a data unit decrypted as it needs.
OtherSum(d) == 1 + ((d.at + 3 * d.n + 7 * (d.key + 2)) % 65521)

FileImage(p) ==
  LET flags == p.enc + p.comp + p.patch + p.single + p.sums
      d == DataOff(Slots, 1)
      at == p.base + d
      ssz == SECTOR_BASE
      n == (p.unpacked + ssz - 1) \div ssz
      name == NameOf(0)
      key == IF p.enc = 0 THEN 0
             ELSE IF p.enc = FILE_ENCRYPTED THEN name.hk
             ELSE BitXor(name.hk + d, p.unpacked)
      packs == p.comp # 0 /\ p.store # "raw"
      codec == IF ~packs THEN "raw" ELSE IF p.comp = FILE_IMPLODE THEN "implode" ELSE "multi"
      method == IF p.store \in {"zlib", "zlib_all"} THEN COMPRESSION_ZLIB ELSE 16
      \* a sectored file that is not compressed has no sector table
      tabled == p.comp # 0
      hasSums == tabled /\ p.sums # 0
      tw == IF tabled THEN n + 1 + (IF hasSums THEN 1 ELSE 0) ELSE 0
      plain(i) == Min(ssz, p.unpacked - i * ssz)
      packed_unit(i) == packs /\ (plain(i) > PackedLen \/ p.store = "zlib_all")
      len(i) == IF packed_unit(i) THEN PackedLen ELSE plain(i)
      off[j \in 0..n] == IF j = 0 THEN 4 * tw ELSE off[j - 1] + len(j - 1)
      ukey(i) == IF p.enc = 0 THEN NoKey ELSE key + i
      unit(i) == Unit(at + off[i], len(i), ukey(i),
                      IF packed_unit(i) THEN codec ELSE "raw",
                      IF packed_unit(i) THEN method ELSE 0, plain(i), 1000 + i)
      sum(i) == CASE p.crc = "good" -> 1000 + i
                  [] p.crc = "zero" -> 0
                  [] p.crc = "bad0" -> IF i = 0 THEN 2000 ELSE 1000 + i
                  [] p.crc = "bad1" -> IF i = 1 THEN 2000 ELSE 1000 + i
                  [] p.crc = "cipher" -> OtherSum([at |-> at + off[i], n |-> len(i), key |-> NoKey])
      tkey == IF p.enc = 0 THEN NoKey ELSE key - 1
      tableAt == { at + 4 * j : j \in 0..(tw - 1) }
      sumsAt == IF hasSums THEN { at + off[n] + 4 * i : i \in 0..(n - 1) } ELSE {}
      body == IF hasSums THEN off[n] + 4 * n ELSE off[n]
      \* single unit
      upacked == IF packs /\ p.unpacked > PackedLen THEN PackedLen ELSE p.unpacked
      uunit == Unit(at, upacked, IF p.enc = 0 THEN NoKey ELSE key,
                    IF upacked < p.unpacked THEN codec ELSE "raw",
                    IF upacked < p.unpacked THEN method ELSE 0, p.unpacked, 1000)
      packed == IF p.single # 0 THEN upacked ELSE body
  IN
  [len |-> IF p.cut THEN at + packed - 1 ELSE at + packed + 8,
   magic |-> [q \in {0, p.base} |->
                IF q = p.base THEN "A" ELSE "B"],
   ud |-> [user_data_size |-> 4, header_offset |-> p.base],
   hdr |-> Header(Slots, 1, 0),
   hash_at |-> p.base + HEADER_SIZE_V1,
   block_at |-> p.base + HEADER_SIZE_V1 + ENTRY_SIZE * Slots,
   hash |-> [i \in 1..Slots |-> IF i = 1 THEN Hash(11, 21, 0) ELSE Hash(EMPTY, EMPTY, EMPTY)],
   block |-> << Block(d, packed, p.unpacked, flags) >>,
   words |-> IF p.single # 0 THEN NoWords
             ELSE [q \in tableAt \cup sumsAt |->
                     IF q \in tableAt
                     THEN LET j == (q - at) \div 4 IN
                          [v |-> IF j <= n THEN off[j] ELSE off[n] + 4 * n,
                           k |-> IF j > n /\ p.tail THEN NoKey ELSE tkey, i |-> j]
                     ELSE [v |-> sum((q - at - off[n]) \div 4), k |-> NoKey, i |-> 0]],
   sectors |-> IF p.single # 0 THEN { uunit } ELSE { unit(i) : i \in 0..(n - 1) }]

FileImages == { FileImage(p) : p \in { q \in FileParams : Canonical(q) } }

\* Files that differ in where the headers are: `kinds` gives the magic at
\* each 0x200 boundary, every user-data header has header_offset h, and
\* `target` is the magic at the places off a boundary that a user-data
\* header points to.  The tables lie behind the first archive header an
\* 0x200 scan meets, directly or through a user-data header.
OpenParams ==
  [kinds : [0..(MaxBlocks - 1) -> {"A", "B", "X"}],
   h : {0, USER_HEADER_SIZE, SCAN_STEP, 2 * SCAN_STEP},
   target : {"A", "X"}]

OpenImage(p) ==
  LET aligned == { SCAN_STEP * k : k \in 0..(MaxBlocks - 1) }
      targets == { q + p.h : q \in aligned }
      at(q) == IF q \in aligned THEN p.kinds[q \div SCAN_STEP] ELSE p.target
      marked == { q \in aligned : p.kinds[q \div SCAN_STEP] # "X" }
      first == CHOOSE q \in marked : \A r \in marked : q <= r
      base == IF marked = {} THEN 0
              ELSE IF at(first) = "A" THEN first ELSE first + p.h
  IN
  [len |-> SCAN_STEP * MaxBlocks,
   magic |-> [q \in aligned \cup targets |-> at(q)],
   ud |-> [user_data_size |-> 4, header_offset |-> p.h],
   hdr |-> Header(1, 1, 0),
   hash_at |-> base + HEADER_SIZE_V1,
   block_at |-> base + HEADER_SIZE_V1 + ENTRY_SIZE,
   hash |-> << Hash(11, 21, 0) >>,
   block |-> << Block(DataOff(1, 1), 3, 3, FILE_SINGLE_UNIT) >>,
   words |-> NoWords,
   sectors |-> { Unit(base + DataOff(1, 1), 3, NoKey, "raw", 0, 3, 300) }]

OpenImages == { OpenImage(p) : p \in OpenParams }

Images == ProbeImages \cup FileImages \cup OpenImages

\* ------------------------------------------------------------- file reads

\* An Option is a sequence of at most one element.
Some(x) == << x >>
IsSome(o) == Len(o) = 1
Get(o) == o[1]

\* fs::File::read_exact of n bytes at position pos succeeds when the file
\* holds them; otherwise it fails with UnexpectedEof.
ReadOk(image, pos, n) == pos + n <= image.len

MagicAt(image, p) == IF p \in DOMAIN image.magic THEN image.magic[p] ELSE "X"

WordAt(image, p) ==
  IF p \in DOMAIN image.words THEN image.words[p] ELSE [v |-> 0, k |-> NoKey, i |-> 0]

\* The n words read at pos.
ReadWords(image, pos, n) == [j \in 1..n |-> WordAt(image, pos + 4 * (j - 1))]

JunkHash == Hash(Scramble(0, 1, 0), Scramble(0, 1, 1), Scramble(0, 1, 3))
JunkBlock == Block(Scramble(0, 2, 0), Scramble(0, 2, 1), Scramble(0, 2, 2), Scramble(0, 2, 3))

\* What the count entries read at pos decrypt to under the table's key.
HashTableAt(image, pos, count) ==
  [i \in 1..count |->
     IF pos = image.hash_at /\ i <= Len(image.hash) THEN image.hash[i] ELSE JunkHash]

BlockTableAt(image, pos, count) ==
  [i \in 1..count |->
     IF pos = image.block_at /\ i <= Len(image.block) THEN image.block[i] ELSE JunkBlock]

\* ---------------------------------------------------------- Archive::open

UserDataHeader(src) ==
  [user_data_size |-> src.user_data_size, header_offset |-> src.header_offset]

Located(kind, err, offset, udh, reads) ==
  [kind |-> kind, err |-> err, offset |-> offset, user_data_header |-> udh,
   reads |-> reads]

\* A scan that takes up the 0x200 steps again when the block a user-data
\* header points at is no archive header.
RECURSIVE LocateResuming(_, _, _)
LocateResuming(image, offset, reads) ==
  LET here == Append(reads, offset) IN
  IF ~ReadOk(image, offset, HEADER_SIZE_V1)
  THEN Located("Err", "UnexpectedEof", offset, << >>, here)
  ELSE IF MagicAt(image, offset) = "A"
  THEN Located("Ok", None, offset, << >>, here)
  ELSE IF MagicAt(image, offset) = "B"
          /\ ReadOk(image, offset + image.ud.header_offset, HEADER_SIZE_V1)
          /\ MagicAt(image, offset + image.ud.header_offset) = "A"
  THEN Located("Ok", None, offset + image.ud.header_offset,
               Some(UserDataHeader(image.ud)),
               Append(here, offset + image.ud.header_offset))
  ELSE LocateResuming(image, offset + SCAN_STEP, here)

\* The loop of Archive::open: `reads` lists the positions read so far.
RECURSIVE Locate(_, _, _)
Locate(image, offset, reads) ==
  LET here == Append(reads, offset) IN
  IF ~ReadOk(image, offset, HEADER_SIZE_V1)
  THEN Located("Err", "UnexpectedEof", offset, << >>, here)
  ELSE IF MagicAt(image, offset) = "A"
  THEN Located("Ok", None, offset, << >>, here)
  ELSE IF MagicAt(image, offset) = "B"
  THEN LET header == UserDataHeader(image.ud)
           moved == offset + header.header_offset
           there == Append(here, moved)
       IN IF ~ReadOk(image, moved, HEADER_SIZE_V1)
          THEN Located("Err", "UnexpectedEof", moved, << >>, there)
          ELSE IF MagicAt(image, moved) # "A"
          THEN Located("Err", "InvalidData", moved, << >>, there)
          ELSE Located("Ok", None, moved, Some(header), there)
  ELSE Locate(image, offset + SCAN_STEP, here)

Opened(kind, err, archive, pos, reads) ==
  [kind |-> kind, err |-> err, archive |-> archive, pos |-> pos, reads |-> reads]

\* `512 << header.sector_size_shift` in u32: a shift of 32 or more panics
\* with overflow checks and is masked to 5 bits without.
SectorSize(shift) == (SECTOR_BASE * 2^(shift % 32)) % U32

\* Archive::open(path) on the file `image`.
open(image, checks) ==
  LET loc == Locate(image, 0, << >>)
      header == image.hdr
      hash_pos == header.hash_table_offset + loc.offset
      hash_len == header.hash_table_count * ENTRY_SIZE
      block_pos == header.block_table_offset + loc.offset
      block_len == header.block_table_count * ENTRY_SIZE
  IN IF loc.kind # "Ok"
     THEN Opened("Err", loc.err, << >>, loc.offset, loc.reads)
     ELSE IF ~ReadOk(image, hash_pos, hash_len)
     THEN Opened("Err", "UnexpectedEof", << >>, hash_pos, loc.reads)
     ELSE IF ~ReadOk(image, block_pos, block_len)
     THEN Opened("Err", "UnexpectedEof", << >>, block_pos, loc.reads)
     ELSE IF header.sector_size_shift >= 32 /\ checks
     THEN Opened("Panic", "Overflow", << >>, block_pos + block_len, loc.reads)
     ELSE Opened("Ok", None,
            Some([header |-> header,
                  user_data_header |-> loc.user_data_header,
                  hash_table |-> HashTableAt(image, hash_pos, header.hash_table_count),
                  block_table |-> BlockTableAt(image, block_pos, header.block_table_count),
                  sector_size |-> SectorSize(header.sector_size_shift),
                  offset |-> loc.offset]),
            block_pos + block_len, loc.reads)

\* ----------------------------------------------------- Archive::open_file

Io(op, at, n) == [op |-> op, at |-> at, n |-> n]

\* The `for i in start_index..self.hash_table.len()` loop: the first slot
\* at or after i whose two hashes are the name's, Len(table) when the loop
\* runs out (slots are counted from 0, as in the code).
RECURSIVE Probe(_, _, _, _)
Probe(table, i, hash_a, hash_b) ==
  IF i >= Len(table) THEN Len(table)
  ELSE IF table[i + 1].hash_a = hash_a /\ table[i + 1].hash_b = hash_b THEN i
  ELSE Probe(table, i + 1, hash_a, hash_b)

\* `hash_string(filename, 0x0) & (self.header.hash_table_count - 1)`
StartIndex(archive, filename) ==
  BitAnd(hash_string(filename, 0), (archive.header.hash_table_count - 1) % U32)

\* The decryption key of an encrypted file (before overflow is looked at).
FileKey(block, filename) ==
  IF ~HasFlag(block.flags, FILE_ENCRYPTED) THEN 0
  ELSE IF HasFlag(block.flags, FILE_FIX_KEY)
  THEN BitXor((hash_string(filename, 768) + block.offset) % U32, block.unpacked_size)
  ELSE hash_string(filename, 768)

\* `((block.unpacked_size - 1) / self.sector_size) + 1` in u32.
NumSectors(unpacked_size, sector_size) ==
  (((unpacked_size - 1) % U32) \div sector_size) + 1

Loaded(kind, err, offsets, checksums, pos, io, num_sectors) ==
  [kind |-> kind, err |-> err, sector_offsets |-> offsets,
   sector_checksums |-> checksums, pos |-> pos, io |-> io,
   num_sectors |-> num_sectors]

\* The seek of the checksum sector.
ChecksumSeek(archive, block, checksum_offset) == block.offset + checksum_offset

\* The body of `if block.flags & FILE_SINGLE_UNIT == 0`: the sector-offset
\* table and, for COMPRESS with SECTOR_CRC, the checksum sector.
LoadSectors(archive, image, checks, block, file_key, fpos) ==
  LET num_sectors == NumSectors(block.unpacked_size, archive.sector_size)
      table_pos == block.offset + archive.offset
      table_len == (num_sectors + 1) * 4
      io1 == << Io("seek", table_pos, 0), Io("read", table_pos, table_len) >>
      words == ReadWords(image, table_pos, num_sectors + 1)
      plain == IF HasFlag(block.flags, FILE_ENCRYPTED)
               THEN decrypt(words, (file_key - 1) % U32) ELSE words
      offsets == [j \in 1..(num_sectors + 1) |-> RawValue(plain[j])]
      last_pos == table_pos + table_len
      io2 == Append(io1, Io("read", last_pos, 4))
      last_offset == RawValue(WordAt(image, last_pos))
      checksum_offset == offsets[num_sectors + 1]
      sector_size == (last_offset - checksum_offset) % U32
      expected_size == (num_sectors * 4) % U32
      sum_pos == ChecksumSeek(archive, block, checksum_offset)
      io3 == io2 \o << Io("seek", sum_pos, 0), Io("read", sum_pos, 4 * num_sectors) >>
      sums == [j \in 1..num_sectors |-> RawValue(WordAt(image, sum_pos + 4 * (j - 1)))]
  IN IF block.unpacked_size = 0 /\ checks
     THEN Loaded("Panic", "Overflow", << >>, << >>, fpos, << >>, 0)
     ELSE IF archive.sector_size = 0
     THEN Loaded("Panic", "DivideByZero", << >>, << >>, fpos, << >>, 0)
     ELSE IF ~ReadOk(image, table_pos, table_len)
     THEN Loaded("Err", "UnexpectedEof", << >>, << >>, table_pos, io1, num_sectors)
     ELSE IF HasFlag(block.flags, FILE_ENCRYPTED) /\ file_key = 0 /\ checks
     THEN Loaded("Panic", "Overflow", << >>, << >>, last_pos, io1, num_sectors)
     ELSE IF ~(HasFlag(block.flags, FILE_COMPRESS) /\ HasFlag(block.flags, FILE_SECTOR_CRC))
     THEN Loaded("Ok", None, offsets, << >>, last_pos, io1, num_sectors)
     ELSE IF ~ReadOk(image, last_pos, 4)
     THEN Loaded("Err", "UnexpectedEof", << >>, << >>, last_pos, io2, num_sectors)
     ELSE IF last_offset < checksum_offset /\ checks
     THEN Loaded("Panic", "Overflow", << >>, << >>, last_pos + 4, io2, num_sectors)
     ELSE IF sector_size # expected_size
     THEN Loaded("Ok", None, offsets, << >>, last_pos + 4, io2, num_sectors)
     ELSE IF ~ReadOk(image, sum_pos, 4 * num_sectors)
     THEN Loaded("Err", "UnexpectedEof", << >>, << >>, sum_pos, io3, num_sectors)
     ELSE Loaded("Ok", None, offsets, sums, sum_pos + 4 * num_sectors, io3, num_sectors)

Found(kind, err, file, pos, io, start, slot, inspected, num_sectors) ==
  [kind |-> kind, err |-> err, file |-> file, pos |-> pos, io |-> io,
   start |-> start, slot |-> slot, inspected |-> inspected,
   num_sectors |-> num_sectors]

\* The slots the probe looks at when it starts at `start` and ends at
\* `slot` (Len(table): it ran out).
Inspected(table, start, slot) ==
  IF start >= Len(table) THEN 0
  ELSE IF slot >= Len(table) THEN Len(table) - start
  ELSE slot - start + 1

\* Archive::open_file(filename), the file position being fpos.
open_file(archive, image, checks, filename, fpos) ==
  LET table == archive.hash_table
      start_index == StartIndex(archive, filename)
      slot == Probe(table, start_index, hash_string(filename, 256),
                    hash_string(filename, 512))
      seen == Inspected(table, start_index, slot)
      hash == table[slot + 1]
      block == archive.block_table[hash.block_index + 1]
      file_key == FileKey(block, filename)
      sect == LoadSectors(archive, image, checks, block, file_key, fpos)
      file == [name |-> filename, hash |-> hash, block |-> block,
               sector_offsets |-> sect.sector_offsets,
               sector_checksums |-> sect.sector_checksums,
               file_key |-> file_key]
  IN IF archive.header.hash_table_count = 0 /\ checks
     THEN Found("Panic", "Overflow", << >>, fpos, << >>, 0, 0, 0, 0)
     ELSE IF slot >= Len(table)
     THEN Found("Err", "NotFound", << >>, fpos, << >>, start_index, slot, seen, 0)
     ELSE IF hash.block_index >= Len(archive.block_table)
     THEN Found("Panic", "IndexOutOfBounds", << >>, fpos, << >>, start_index, slot, seen, 0)
     ELSE IF HasFlag(block.flags, FILE_ENCRYPTED) /\ HasFlag(block.flags, FILE_FIX_KEY)
             /\ hash_string(filename, 768) + block.offset >= U32 /\ checks
     THEN Found("Panic", "Overflow", << >>, fpos, << >>, start_index, slot, seen, 0)
     ELSE IF HasFlag(block.flags, FILE_SINGLE_UNIT)
     THEN Found("Ok", None,
                Some([file EXCEPT !.sector_offsets = << >>, !.sector_checksums = << >>]),
                fpos, << >>, start_index, slot, seen, 0)
     ELSE IF sect.kind # "Ok"
     THEN Found(sect.kind, sect.err, << >>, sect.pos, sect.io, start_index, slot, seen,
                sect.num_sectors)
     ELSE Found("Ok", None, Some(file), sect.pos, sect.io, start_index, slot, seen,
                sect.num_sectors)

\* ------------------------------------------------------------- the codecs

Bytes(at, n) == [at |-> at, n |-> n, key |-> NoKey]

\* The data unit a buffer holds in full, decrypted as the unit needs.
UnitsOf(image, d) ==
  { u \in image.sectors : u.at = d.at /\ u.len = d.n /\ u.key = d.key }

\* RollingAdler32::from_value(0) over the buffer: the unit's checksum when
\* the buffer is one, and some other number when it is not.
Adler(image, d) ==
  IF UnitsOf(image, d) # {}
  THEN (CHOOSE u \in UnitsOf(image, d) : TRUE).sum
  ELSE 1 + ((d.at + 3 * d.n + 7 * (d.key + 2)) % 65521)

\* data[0]
MethodByte(image, d) ==
  IF UnitsOf(image, d) # {} THEN (CHOOSE u \in UnitsOf(image, d) : TRUE).method ELSE 0

\* zlib.total_out() after inflating data[1..] into `cap` bytes of output;
\* the result of zlib.decompress is dropped, so a broken stream gives 0.
ZlibOut(image, d, cap) ==
  IF \E u \in UnitsOf(image, d) : u.codec = "multi"
  THEN Min((CHOOSE u \in UnitsOf(image, d) : TRUE).plain, cap)
  ELSE 0

Decoded(kind, err, n) == [kind |-> kind, err |-> err, n |-> n]

\* compression::decompress(data, out): only zlib is decoded; every other
\* method prints a FixMe and gives 0.
decompress(image, d, cap) ==
  IF d.n = 0 THEN Decoded("Panic", "IndexOutOfBounds", 0)
  ELSE IF BitAnd(MethodByte(image, d), COMPRESSION_ZLIB) # 0
  THEN Decoded("Ok", None, ZlibOut(image, d, cap))
  ELSE Decoded("Ok", None, 0)

\* explode(data, out): the decoded length of an imploded unit, an error
\* for anything else.
explode(image, d, cap) ==
  IF \E u \in UnitsOf(image, d) : u.codec = "implode"
  THEN Decoded("Ok", None, Min((CHOOSE u \in UnitsOf(image, d) : TRUE).plain, cap))
  ELSE Decoded("Err", "Other", 0)

\* -------------------------------------------------------------- File::read

\* File::size()
size(file) == file.block.unpacked_size

\* What File::read leaves: its result (n: the count it returns), the
\* pieces it wrote to the output buffer in order, the file position and
\* the seeks and reads it made.
Read(kind, err, n, out, pos, io) ==
  [kind |-> kind, err |-> err, n |-> n, out |-> out, pos |-> pos, io |-> io]

\* n bytes written to the output from buffer src, copied or decoded.
Piece(n, src, via) == IF n = 0 THEN << >> ELSE << [n |-> n, src |-> src, via |-> via] >>

\* `in_buf.len() == archive.sector_size as usize || in_buf.len() == out_buf.len()`
StoredRaw(in_len, sector_size, out_len) == in_len = sector_size \/ in_len = out_len

\* A comparison made on the bytes as they are on disk, before decrypt.
ChecksumFailsOnDisk(file, image, i, in_buf) ==
  /\ Len(file.sector_checksums) # 0
  /\ file.sector_checksums[i + 1] # 0
  /\ file.sector_checksums[i + 1] # Adler(image, [in_buf EXCEPT !.key = NoKey])

\* `self.sector_checksums[i] != adler.hash()`, for a sector that is checked.
ChecksumFails(file, image, i, in_buf) ==
  /\ Len(file.sector_checksums) # 0
  /\ file.sector_checksums[i + 1] # 0
  /\ file.sector_checksums[i + 1] # Adler(image, in_buf)

\* The seek of sector i.
SectorSeek(file, archive, sector_offset) ==
  file.block.offset + sector_offset + archive.offset

\* The loop of read_sector_file from sector i on; `read` bytes are in the
\* output already.
RECURSIVE Sectors(_, _, _, _, _, _, _, _, _, _)
Sectors(file, archive, image, checks, out_len, i, read, out, pos, io) ==
  IF i >= Len(file.sector_offsets) - 1 THEN Read("Ok", None, read, out, pos, io)
  ELSE
  LET sector_offset == file.sector_offsets[i + 1]
      next_offset == file.sector_offsets[i + 2]
      sector_size == (next_offset - sector_offset) % U32
      cap == out_len - read
      at == SectorSeek(file, archive, sector_offset)
      io1 == io \o << Io("seek", at, 0), Io("read", at, sector_size) >>
      raw == Bytes(at, sector_size)
      in_buf == IF HasFlag(file.block.flags, FILE_ENCRYPTED)
                THEN decryptData(raw, (file.file_key + i) % U32) ELSE raw
      copied == Min(cap, sector_size)
      dec == IF HasFlag(file.block.flags, FILE_COMPRESS)
             THEN decompress(image, in_buf, cap) ELSE explode(image, in_buf, cap)
      via == IF HasFlag(file.block.flags, FILE_COMPRESS) THEN "decompress" ELSE "explode"
  IN IF next_offset < sector_offset /\ checks
     THEN Read("Panic", "Overflow", read, out, pos, io)
     ELSE IF sector_size > archive.sector_size
     THEN Read("Panic", "IndexOutOfBounds", read, out, pos, io)
     ELSE IF ~ReadOk(image, at, sector_size)
     THEN Read("Err", "UnexpectedEof", read, out, at, io1)
     ELSE IF HasFlag(file.block.flags, FILE_ENCRYPTED) /\ file.file_key + i >= U32 /\ checks
     THEN Read("Panic", "Overflow", read, out, at + sector_size, io1)
     ELSE IF ChecksumFails(file, image, i, in_buf)
     THEN Read("Err", "Other", read, out, at + sector_size, io1)
     ELSE IF ~HasFlag(file.block.flags, FILE_COMPRESS) /\ ~HasFlag(file.block.flags, FILE_IMPLODE)
     THEN Sectors(file, archive, image, checks, out_len, i + 1, read, out,
                  at + sector_size, io1)
     ELSE IF StoredRaw(sector_size, archive.sector_size, cap)
     THEN Sectors(file, archive, image, checks, out_len, i + 1, read + copied,
                  out \o Piece(copied, in_buf, "copy"), at + sector_size, io1)
     ELSE IF dec.kind # "Ok"
     THEN Read(dec.kind, dec.err, read, out, at + sector_size, io1)
     ELSE Sectors(file, archive, image, checks, out_len, i + 1, read + dec.n,
                  out \o Piece(dec.n, in_buf, via), at + sector_size, io1)

\* File::read_sector_file(archive, out)
read_sector_file(file, archive, image, checks, out_len, fpos) ==
  LET at == file.block.offset + archive.offset
      io == << Io("seek", at, 0), Io("read", at, out_len) >>
  IN IF HasFlag(file.block.flags, FILE_COMPRESS_MASK)
     THEN IF Len(file.sector_offsets) = 0
          THEN Read("Panic", "Overflow", 0, << >>, fpos, << >>)
          ELSE Sectors(file, archive, image, checks, out_len, 0, 0, << >>, fpos, << >>)
     ELSE IF ~ReadOk(image, at, out_len)
     THEN Read("Err", "UnexpectedEof", 0, << >>, at, io)
     ELSE Read("Ok", None, out_len, Piece(out_len, Bytes(at, out_len), "copy"),
               at + out_len, io)

\* File::read_single_unit_file(buff_size, file, offset, out_buf)
read_single_unit_file(file, image, buff_size, offset, out_len, fpos) ==
  LET at == file.block.offset + offset
      io == << Io("seek", at, 0), Io("read", at, buff_size) >>
      raw == Bytes(at, buff_size)
      in_buff == IF HasFlag(file.block.flags, FILE_ENCRYPTED)
                 THEN decryptData(raw, file.file_key) ELSE raw
      dec == decompress(image, in_buff, out_len)
      exp == explode(image, in_buff, out_len)
      copied == Min(out_len, buff_size)
  IN IF ~ReadOk(image, at, buff_size)
     THEN Read("Err", "UnexpectedEof", 0, << >>, at, io)
     ELSE IF HasFlag(file.block.flags, FILE_COMPRESS) /\ out_len > buff_size
     THEN Read(dec.kind, dec.err, dec.n, Piece(dec.n, in_buff, "decompress"),
               at + buff_size, io)
     ELSE IF HasFlag(file.block.flags, FILE_IMPLODE)
     THEN Read(exp.kind, exp.err, exp.n, Piece(exp.n, in_buff, "explode"),
               at + buff_size, io)
     ELSE Read("Ok", None, file.block.unpacked_size, Piece(copied, in_buff, "copy"),
               at + buff_size, io)

\* A read that looks at PATCH_FILE only after the single-unit path.
read_patch_after_single(file, archive, image, checks, out_len, fpos) ==
  IF HasFlag(file.block.flags, FILE_SINGLE_UNIT)
  THEN read_single_unit_file(file, image, file.block.packed_size, archive.offset,
                             out_len, fpos)
  ELSE IF HasFlag(file.block.flags, FILE_PATCH_FILE)
  THEN Read("Err", "Other", 0, << >>, fpos, << >>)
  ELSE read_sector_file(file, archive, image, checks, out_len, fpos)

\* File::read(archive, buf), buf being out_len bytes long.
read(file, archive, image, checks, out_len, fpos) ==
  IF HasFlag(file.block.flags, FILE_PATCH_FILE)
  THEN Read("Err", "Other", 0, << >>, fpos, << >>)
  ELSE IF HasFlag(file.block.flags, FILE_SINGLE_UNIT)
  THEN read_single_unit_file(file, image, file.block.packed_size, archive.offset,
                             out_len, fpos)
  ELSE read_sector_file(file, archive, image, checks, out_len, fpos)

\* A read_user_data that reads where the file stands, without its seek.
read_user_data_unsought(archive, image, fpos) ==
  IF IsSome(archive.user_data_header)
  THEN LET n == Get(archive.user_data_header).user_data_size
           io == << Io("read", fpos, n) >>
       IN IF ~ReadOk(image, fpos, n)
          THEN Read("Err", "UnexpectedEof", 0, << >>, fpos, io)
          ELSE Read("Ok", None, n, Piece(n, Bytes(fpos, n), "copy"), fpos + n, io)
  ELSE Read("Ok", None, 0, << >>, fpos, << >>)

\* Archive::read_user_data()
read_user_data(archive, image, fpos) ==
  IF IsSome(archive.user_data_header)
  THEN LET n == Get(archive.user_data_header).user_data_size
           io == << Io("seek", USER_HEADER_SIZE, 0), Io("read", USER_HEADER_SIZE, n) >>
       IN IF ~ReadOk(image, USER_HEADER_SIZE, n)
          THEN Read("Err", "UnexpectedEof", 0, << >>, USER_HEADER_SIZE, io)
          ELSE Read("Ok", None, n, Piece(n, Bytes(USER_HEADER_SIZE, n), "copy"),
                    USER_HEADER_SIZE + n, io)
  ELSE Read("Ok", None, 0, << >>, fpos, << >>)

\* ---------------------------------------------------------- state machine

VARIABLES
  image,     \* the file on disk
  checks,    \* whether the build panics on integer overflow (debug) or wraps
  archive,   \* the Archive, once open
  fpos,      \* the position of the Archive's file
  file,      \* the File handle the caller holds
  last,      \* the last call: [op, name, res]
  chain      \* Chain.chain: the archives, each with its file and position

vars == << image, checks, archive, fpos, file, last, chain >>

NoCall == [op |-> "none", name |-> Absent, res |-> [kind |-> "Ok"]]

Init ==
  /\ image \in Images
  /\ checks \in BOOLEAN
  /\ archive = << >>
  /\ fpos = 0
  /\ file = << >>
  /\ last = NoCall
  /\ chain = << >>

\* read_exact that fails leaves the position unspecified.
PosAfter(res) == IF res.err = "UnexpectedEof" THEN {res.pos, image.len} ELSE {res.pos}

Panicked == last.res.kind = "Panic"

\* Archive::open(path)
Open ==
  /\ last.op = "none"
  /\ LET res == open(image, checks) IN
     /\ archive' = res.archive
     /\ fpos' \in PosAfter(res)
     /\ last' = [op |-> "open", name |-> Absent, res |-> res]
  /\ UNCHANGED << image, checks, file, chain >>

\* archive.open_file(filename)
OpenFile(filename) ==
  /\ last.op = "open"
  /\ IsSome(archive)
  /\ LET res == open_file(Get(archive), image, checks, filename, fpos) IN
     /\ file' = res.file
     /\ fpos' \in PosAfter(res)
     /\ last' = [op |-> "open_file", name |-> filename, res |-> res]
  /\ UNCHANGED << image, checks, archive, chain >>

\* file.read(&mut archive, &mut buf) with buf.len() == file.size()
FileRead ==
  /\ last.op = "open_file"
  /\ IsSome(file)
  /\ LET res == read(Get(file), Get(archive), image, checks, size(Get(file)), fpos) IN
     /\ fpos' \in PosAfter(res)
     /\ last' = [op |-> "read", name |-> last.name, res |-> res]
  /\ UNCHANGED << image, checks, archive, file, chain >>

\* archive.read_user_data()
ReadUserData ==
  /\ last.op = "open"
  /\ IsSome(archive)
  /\ LET res == read_user_data(Get(archive), image, fpos) IN
     /\ fpos' \in PosAfter(res)
     /\ last' = [op |-> "read_user_data", name |-> Absent, res |-> res]
  /\ UNCHANGED << image, checks, archive, file, chain >>

Next ==
  \/ Open
  \/ \E filename \in Names : OpenFile(filename)
  \/ FileRead
  \/ ReadUserData

Spec == Init /\ [][Next]_vars

\* ------------------------------------------- calls on one Archive, in any order

\* The files the calls are made on: at either base, whole or cut short,
\* plain or encrypted, stored or packed by zlib, in sectors or in one unit.
CallImages ==
  { FileImage(p) : p \in { q \in FileParams :
      /\ Canonical(q)
      /\ q.enc \in {0, FILE_ENCRYPTED} /\ q.comp \in {0, FILE_COMPRESS}
      /\ q.store \in {"raw", "zlib"} /\ q.crc = "good"
      /\ q.unpacked \in {1, SECTOR_BASE + 1} } }

\* The names the calls ask for: the file's and one the archive has not.
CallNames == {NameOf(0), Absent}

\* What a call leaves behind for the next one: the call, how it ended and
\* the position of the file.
Left == [op |-> last.op, kind |-> last.res.kind, err |-> last.res.err, pos |-> fpos]

Called(op, filename, res) == [op |-> op, name |-> filename, res |-> res, from |-> Left]

InitCalls ==
  /\ image \in CallImages
  /\ checks \in BOOLEAN
  /\ archive = << >>
  /\ fpos = 0
  /\ file = << >>
  /\ last = NoCall
  /\ chain = << >>

\* A call can follow any call that returned.
Callable == last.op # "none" /\ IsSome(archive) /\ ~Panicked

\* archive.open_file(filename), after whatever came before; a caller that is
\* refused keeps the handle it has.
CallOpenFile(filename) ==
  /\ Callable
  /\ LET res == open_file(Get(archive), image, checks, filename, fpos) IN
     /\ file' = IF IsSome(res.file) THEN res.file ELSE file
     /\ fpos' \in PosAfter(res)
     /\ last' = Called("open_file", filename, res)
  /\ UNCHANGED << image, checks, archive, chain >>

\* file.read(&mut archive, &mut buf) with buf.len() == file.size(), after
\* whatever came before.
CallRead ==
  /\ Callable
  /\ IsSome(file)
  /\ LET res == read(Get(file), Get(archive), image, checks, size(Get(file)), fpos) IN
     /\ fpos' \in PosAfter(res)
     /\ last' = Called("read", Get(file).name, res)
  /\ UNCHANGED << image, checks, archive, file, chain >>

\* archive.read_user_data(), after whatever came before.
CallReadUserData ==
  /\ Callable
  /\ LET res == read_user_data(Get(archive), image, fpos) IN
     /\ fpos' \in PosAfter(res)
     /\ last' = Called("read_user_data", Absent, res)
  /\ UNCHANGED << image, checks, archive, file, chain >>

NextCalls ==
  \/ Open
  \/ \E filename \in CallNames : CallOpenFile(filename)
  \/ CallRead
  \/ CallReadUserData

SpecCalls == InitCalls /\ [][NextCalls]_vars

\* ------------------------------------------------------------------ Chain

\* The files a Chain is built from, all with their one file under
\* NameOf(0): stored in one unit, packed in sectors, a patch file, with a
\* wrong sector checksum, one byte short, packed with bzip2, without its
\* sector table on disk, empty; an archive without the name; no archive.
Stored ==
  [base |-> 0, enc |-> 0, comp |-> 0, patch |-> 0, single |-> FILE_SINGLE_UNIT,
   sums |-> 0, unpacked |-> 1, store |-> "raw", crc |-> "good", tail |-> FALSE,
   cut |-> FALSE]

Packed ==
  [Stored EXCEPT !.single = 0, !.comp = FILE_COMPRESS, !.unpacked = SECTOR_BASE + 1,
                 !.store = "zlib"]

NoTable == [FileImage(Packed) EXCEPT !.len = DataOff(Slots, 1) + 2]

Nameless == ProbeImage([i \in 1..Slots |-> Hash(12, 22, 1)])

NoArchive ==
  OpenImage([kinds |-> [k \in 0..(MaxBlocks - 1) |-> IF k = 0 THEN "B" ELSE "X"],
             h |-> USER_HEADER_SIZE, target |-> "X"])

ChainImages ==
  { FileImage(Stored), FileImage(Packed),
    FileImage([Stored EXCEPT !.patch = FILE_PATCH_FILE]),
    FileImage([Packed EXCEPT !.sums = FILE_SECTOR_CRC, !.crc = "bad1"]),
    FileImage([Stored EXCEPT !.cut = TRUE]),
    FileImage([Packed EXCEPT !.store = "bzip2"]),
    FileImage([Packed EXCEPT !.unpacked = 0]),
    NoTable, Nameless, NoArchive }

\* One Archive of the chain: its file on disk, the file's position, and
\* the number of the add that put it there.
Link(seq, img, arch, pos) == [seq |-> seq, image |-> img, archive |-> arch, fpos |-> pos]

\* An add that puts the archive behind those already there.
add_at_back(links, v) == links \o << v >>

\* `self.chain.insert(0, v)`
add(links, v) == << v >> \o links

\* What Chain::read leaves: its result, the buffer it returns (its length,
\* the archive it was filled from and the pieces written to it), and for
\* each archive it went through the file position and whether the last
\* read_exact on it failed.
ChainRes(kind, err, buf, moves) == [kind |-> kind, err |-> err, buf |-> buf, moves |-> moves]

Move(res) == [pos |-> res.pos, eof |-> res.err = "UnexpectedEof"]

\* `return Ok(buf)` after file.read: its error, if any, is printed and
\* dropped; a panic is not.
chain_read_file(a, f, res) ==
  IF res.kind = "Panic"
  THEN ChainRes("Panic", res.err, << >>, << Move(res) >>)
  ELSE ChainRes("Ok", None, Some([len |-> size(f), from |-> a.seq, out |-> res.out]),
                << Move(res) >>)

\* `if let Ok(file) = archive.open_file(filename)`: any Err goes on to the
\* next archive, whose outcome is `rest`.
chain_read_archive(a, chk, opened, rest) ==
  IF opened.kind = "Panic"
  THEN ChainRes("Panic", opened.err, << >>, << Move(opened) >>)
  ELSE IF opened.kind = "Ok"
  THEN chain_read_file(a, Get(opened.file),
                       read(Get(opened.file), a.archive, a.image, chk,
                            size(Get(opened.file)), opened.pos))
  ELSE [rest EXCEPT !.moves = << Move(opened) >> \o rest.moves]

\* The loop of Chain::read from the k-th archive on.
RECURSIVE chain_read(_, _, _, _)
chain_read(links, k, filename, chk) ==
  IF k > Len(links)
  THEN ChainRes("Err", "NotFound", << >>, << >>)
  ELSE chain_read_archive(links[k], chk,
         open_file(links[k].archive, links[k].image, chk, filename, links[k].fpos),
         chain_read(links, k + 1, filename, chk))

\* The archives after a Chain::read: those it went through have moved;
\* `ends` are those a failed read_exact left at the end of their file.
RECURSIVE Moved(_, _, _, _)
Moved(links, moves, ends, k) ==
  IF k > Len(links) THEN << >>
  ELSE IF k > Len(moves) THEN << links[k] >> \o Moved(links, moves, ends, k + 1)
  ELSE << Link(links[k].seq, links[k].image, links[k].archive,
               IF moves[k].eof /\ k \in ends THEN links[k].image.len ELSE moves[k].pos) >>
       \o Moved(links, moves, ends, k + 1)

\* the longest chain of archives
MaxChain == 3

\* Chain::add(path), Archive::open having given `res`.
ChainAdded(img, res) ==
  /\ last' = [op |-> "chain_add", name |-> Absent,
              res |-> [kind |-> res.kind, err |-> res.err]]
  /\ chain' = IF res.kind = "Ok"
              THEN add(chain, Link(Len(chain) + 1, img, Get(res.archive), res.pos))
              ELSE chain

ChainAdd ==
  /\ Len(chain) < MaxChain
  /\ last.op \in {"none", "chain_add"}
  /\ \E img \in ChainImages : ChainAdded(img, open(img, checks))
  /\ UNCHANGED << image, checks, archive, fpos, file >>

\* Chain::read(filename), the loop having given `res`.
ChainReadDone(filename, res) ==
  /\ last' = [op |-> "chain_read", name |-> filename, res |-> res]
  /\ \E ends \in SUBSET (1..Len(res.moves)) : chain' = Moved(chain, res.moves, ends, 1)

ChainRead(filename) ==
  /\ last.op \in {"none", "chain_add"}
  /\ ChainReadDone(filename, chain_read(chain, 1, filename, checks))
  /\ UNCHANGED << image, checks, archive, fpos, file >>

InitChain ==
  /\ image = Nameless
  /\ checks \in BOOLEAN
  /\ archive = << >>
  /\ fpos = 0
  /\ file = << >>
  /\ last = NoCall
  /\ chain = << >>

NextChain ==
  \/ ChainAdd
  \/ \E filename \in {NameOf(0), Absent} : ChainRead(filename)

SpecChain == InitChain /\ [][NextChain]_vars

\* ------------------------------------------------------------------ claims

Matches(entry, filename) ==
  entry.hash_a = hash_string(filename, 256) /\ entry.hash_b = hash_string(filename, 512)

Sentinel(entry) == entry.block_index \in {EMPTY, DELETED}

\* The slots (from 0) the last open_file looked at.
Probed == { i \in 0..(Len(Get(archive).hash_table) - 1) :
              last.res.start <= i /\ i < last.res.start + last.res.inspected }

\* C1: open_file never accepts a slot whose block_index is 0xFFFFFFFF or
\* 0xFFFFFFFE, even when both hashes are the name's: the block table is
\* never indexed past its end, the handle returned is never a sentinel
\* slot's, a deleted slot is passed over and an empty slot ends the probe
\* with NotFound.
C1_SentinelsAreNoMatch ==
  last.op = "open_file" =>
    LET table == Get(archive).hash_table
        res == last.res
    IN /\ res.err # "IndexOutOfBounds"
       /\ (res.kind = "Ok" => ~Sentinel(Get(res.file).hash))
       /\ \A i \in Probed :
            table[i + 1].block_index = EMPTY =>
              res.err = "NotFound" /\ i = res.start + res.inspected - 1

\* C2: the probe wraps around: when the name's live entry sits at a slot j
\* before the start slot s, and no slot of s .. count-1, 0 .. j-1 is empty
\* (or carries the name's hashes), open_file returns that entry's file.
C2_ProbeWrapsAround ==
  last.op = "open_file" =>
    LET table == Get(archive).hash_table
        res == last.res
        n == Len(table)
        s == StartIndex(Get(archive), last.name)
    IN \A j \in 0..(s - 1) :
         ( /\ Matches(table[j + 1], last.name)
           /\ table[j + 1].block_index < Len(Get(archive).block_table)
           /\ \A i \in (s..(n - 1)) \cup (0..(j - 1)) :
                table[i + 1].block_index # EMPTY /\ ~Matches(table[i + 1], last.name) )
         => res.kind = "Ok" /\ Get(res.file).hash = table[j + 1]

\* C9: the probe of open_file looks at no more than hash_table_count slots
\* and ends either with NotFound or with a slot that designates a block of
\* the block table, from which the file handle is built.
C9_ProbeEndsInHandleOrNotFound ==
  last.op = "open_file" =>
    LET table == Get(archive).hash_table
        res == last.res
    IN /\ res.inspected <= Get(archive).header.hash_table_count
       /\ \/ res.err = "NotFound"
          \/ /\ res.slot < Len(table)
             /\ table[res.slot + 1].block_index < Len(Get(archive).block_table)

CeilDiv(a, b) == (a + b - 1) \div b

\* C10: for a block that is not SINGLE_UNIT, open_file computes
\* num_sectors = ceil(unpacked_size / sector_size), 0 for an empty file,
\* without arithmetic overflow, and loads num_sectors + 1 sector offsets.
C10_SectorCountIsCeiling ==
  ( /\ last.op = "open_file"
    /\ last.res.slot < Len(Get(archive).hash_table)
    /\ Get(archive).hash_table[last.res.slot + 1].block_index < Len(Get(archive).block_table)
    /\ ~HasFlag(Get(archive).block_table[
                  Get(archive).hash_table[last.res.slot + 1].block_index + 1].flags,
                FILE_SINGLE_UNIT) )
  => LET block == Get(archive).block_table[
                    Get(archive).hash_table[last.res.slot + 1].block_index + 1]
         want == CeilDiv(block.unpacked_size, Get(archive).sector_size)
     IN /\ last.res.err # "Overflow"
        /\ last.res.num_sectors = want
        /\ (last.res.kind = "Ok" => Len(Get(last.res.file).sector_offsets) = want + 1)

Flag(f) == HasFlag(Get(file).block.flags, f)

\* C5: a File::read of a file without PATCH_FILE into a buffer of
\* File::size() bytes that returns Ok returns File::size(), on the
\* single-unit path and on the sectored paths (COMPRESS, IMPLODE, neither).
C5_ReadReturnsSize ==
  (last.op = "read" /\ ~Flag(FILE_PATCH_FILE) /\ last.res.kind = "Ok")
  => last.res.n = size(Get(file))

\* C7: File::read of a PATCH_FILE file is an Other error, whatever its
\* other flags: it makes no seek and no read, leaves the file position
\* where it was and writes nothing to the output.
C7_PatchFileFailsAtOnce ==
  [][ (last'.op = "read" /\ Flag(FILE_PATCH_FILE))
      => /\ last'.res.kind = "Err" /\ last'.res.err = "Other"
         /\ last'.res.io = << >>
         /\ last'.res.out = << >>
         /\ last'.res.n = 0
         /\ fpos' = fpos ]_vars

\* C7: a PATCH_FILE file that is also SINGLE_UNIT, COMPRESS and ENCRYPTED,
\* all of it on disk, has been read.
C7_PatchFileRead ==
  /\ last.op = "read"
  /\ Flag(FILE_PATCH_FILE) /\ Flag(FILE_SINGLE_UNIT)
  /\ Flag(FILE_COMPRESS) /\ Flag(FILE_ENCRYPTED)
  /\ size(Get(file)) > 0
  /\ ReadOk(image, Get(file).block.offset + Get(archive).offset, Get(file).block.packed_size)

\* The bytes of sector i on disk, decrypted when the file is encrypted.
OnDisk(i) ==
  LET f == Get(file) IN
  [at |-> SectorSeek(f, Get(archive), f.sector_offsets[i + 1]),
   n |-> f.sector_offsets[i + 2] - f.sector_offsets[i + 1],
   key |-> IF Flag(FILE_ENCRYPTED) THEN f.file_key + i ELSE NoKey]

\* The sectors whose checksum is not 0 and is not the Adler-32 of OnDisk(i).
Mismatching ==
  { i \in 0..(Len(Get(file).sector_offsets) - 2) :
      /\ Get(file).sector_checksums[i + 1] # 0
      /\ Get(file).sector_checksums[i + 1] # Adler(image, OnDisk(i)) }

\* C8: when the checksums of a sectored file were loaded and sector b is
\* the first whose non-zero checksum is not the Adler-32 of its decrypted
\* on-disk bytes, File::read is never Ok: it is Other, with nothing of
\* sector b or of a later one decoded to the output, unless it failed
\* before it had sector b's bytes. A file without such a sector is never
\* refused for its checksums.
C8_ChecksumGuardsSectors ==
  ( /\ last.op = "read" /\ ~Flag(FILE_PATCH_FILE) /\ ~Flag(FILE_SINGLE_UNIT)
    /\ Len(Get(file).sector_checksums) # 0 )
  => LET res == last.res IN
     IF Mismatching = {}
     THEN res.err # "Other"
     ELSE LET b == CHOOSE i \in Mismatching : \A j \in Mismatching : i <= j IN
          /\ res.kind # "Ok"
          /\ \A j \in 1..Len(res.out) : res.out[j].src.at < OnDisk(b).at
          /\ \/ res.kind = "Err" /\ res.err = "Other" /\ Len(res.io) = 2 * (b + 1)
             \/ res.err \in {"UnexpectedEof", "Overflow", "IndexOutOfBounds"}
                /\ Len(res.io) <= 2 * (b + 1)

\* C8: an encrypted file whose second sector alone is wrong has been read
\* up to that sector and refused.
C8_SecondSectorRefused ==
  /\ last.op = "read" /\ ~Flag(FILE_PATCH_FILE) /\ ~Flag(FILE_SINGLE_UNIT)
  /\ Flag(FILE_ENCRYPTED)
  /\ Len(Get(file).sector_checksums) # 0
  /\ Mismatching = {1}
  /\ last.res.err = "Other"
  /\ Len(last.res.out) = 1

\* The offsets of the 0x200 scan that hold a block with a magic.
Marked ==
  { o \in { SCAN_STEP * k : k \in 0..(image.len \div SCAN_STEP) } :
      ReadOk(image, o, HEADER_SIZE_V1) /\ MagicAt(image, o) # "X" }

FirstMarked == CHOOSE o \in Marked : \A q \in Marked : o <= q

\* C6: when the first block of the scan that carries a magic, at offset o,
\* starts with "MPQ\x1B", open reads next at o + header_offset and nowhere
\* after: if that block starts with "MPQ\x1A" open goes on with
\* o + header_offset as the archive's base and keeps the user-data header;
\* if not, open fails with InvalidData and scans no further.
C6_UserDataHeaderDecides ==
  (last.op = "open" /\ Marked # {} /\ MagicAt(image, FirstMarked) = "B")
  => LET base == FirstMarked + image.ud.header_offset
         res == last.res
     IN /\ res.reads = [k \in 1..(FirstMarked \div SCAN_STEP + 1) |-> SCAN_STEP * (k - 1)]
                         \o << base >>
        /\ IF ~ReadOk(image, base, HEADER_SIZE_V1)
           THEN res.kind = "Err" /\ res.err = "UnexpectedEof"
           ELSE IF MagicAt(image, base) = "A"
           THEN /\ res.err # "InvalidData"
                /\ res.kind = "Ok" =>
                     /\ Get(archive).offset = base
                     /\ Get(archive).user_data_header = Some(UserDataHeader(image.ud))
           ELSE res.kind = "Err" /\ res.err = "InvalidData" /\ archive = << >>

\* C6: open has failed on a user-data header, found after one 0x200 step,
\* that points at no archive header, in a file that holds an archive
\* header at a later step of the scan.
C6_InvalidBeforeLaterArchive ==
  /\ last.op = "open"
  /\ Marked # {} /\ FirstMarked = SCAN_STEP /\ MagicAt(image, FirstMarked) = "B"
  /\ last.res.err = "InvalidData"
  /\ \E o \in Marked : o > FirstMarked /\ MagicAt(image, o) = "A"

\* C6: open has succeeded through a user-data header that is not at 0.
C6_OpenedBehindUserData ==
  /\ last.op = "open"
  /\ Marked # {} /\ FirstMarked = SCAN_STEP /\ MagicAt(image, FirstMarked) = "B"
  /\ last.res.kind = "Ok"
  /\ Get(archive).offset = SCAN_STEP + USER_HEADER_SIZE

\* What open_file gives for the name of the last call on the k-th archive
\* of the chain, and what reading the file it found gives.
OpenedAt(k) == open_file(chain[k].archive, chain[k].image, checks, last.name, 0)

ReadAt(k) ==
  read(Get(OpenedAt(k).file), chain[k].archive, chain[k].image, checks,
       size(Get(OpenedAt(k).file)), 0)

Holders == { k \in 1..Len(chain) : OpenedAt(k).kind = "Ok" }

Newest(ks) == CHOOSE k \in ks : \A j \in ks : chain[j].seq <= chain[k].seq

\* C3: Chain::read(N) returns the buffer filled from the most recently
\* added of the archives in which open_file(N) succeeds, whatever was added
\* before or after it: all of N's bytes there when the read succeeds; and
\* NotFound when there is no such archive.
C3_NewestArchiveSupplies ==
  (last.op = "chain_read" /\ last.res.kind # "Panic")
  => IF Holders = {}
     THEN last.res.kind = "Err" /\ last.res.err = "NotFound"
     ELSE /\ last.res.kind = "Ok"
          /\ Get(last.res.buf).from = chain[Newest(Holders)].seq
          /\ Get(last.res.buf).len = size(Get(OpenedAt(Newest(Holders)).file))
          /\ Get(last.res.buf).out = ReadAt(Newest(Holders)).out

\* C3: a chain of three archives has been read: the name is in the first
\* and in the second added, with different contents, and not in the third.
C3_TwoHoldersRead ==
  /\ last.op = "chain_read" /\ last.res.kind = "Ok"
  /\ Len(chain) = 3
  /\ Holders = { k \in 1..3 : chain[k].seq \in {1, 2} }
  /\ \A k \in Holders : ReadAt(k).kind = "Ok" /\ ReadAt(k).n = size(Get(OpenedAt(k).file))
  /\ \A j, k \in Holders : j # k => ReadAt(j).n # ReadAt(k).n
  /\ Get(last.res.buf).from = 2

\* The archives of the chain that do not answer the name with NotFound.
Resolving ==
  { k \in 1..Len(chain) : ~(OpenedAt(k).kind = "Err" /\ OpenedAt(k).err = "NotFound") }

FirstOf(ks) == CHOOSE k \in ks : \A j \in ks : k <= j

\* C4: Chain::read passes over an archive only when open_file says
\* NotFound: when the first archive that says anything else fails in
\* open_file or in File::read, Chain::read returns that error, never Ok
\* with a buffer.
C4_OnlyNotFoundIsSuppressed ==
  (last.op = "chain_read" /\ last.res.kind # "Panic" /\ Resolving # {})
  => IF OpenedAt(FirstOf(Resolving)).kind = "Err"
     THEN last.res.kind = "Err" /\ last.res.err = OpenedAt(FirstOf(Resolving)).err
     ELSE ReadAt(FirstOf(Resolving)).kind = "Err"
          => last.res.kind = "Err" /\ last.res.err = ReadAt(FirstOf(Resolving)).err

\* C11: in the sectored read of an ENCRYPTED file, every piece of the
\* output comes from a sector i decrypted with file_key + i, also when the
\* file has neither COMPRESS nor IMPLODE: no output byte is a byte as it
\* lies encrypted on disk.
C11_SectorsDecryptedWithTheirKey ==
  ( /\ last.op = "read" /\ ~Flag(FILE_PATCH_FILE) /\ ~Flag(FILE_SINGLE_UNIT)
    /\ Flag(FILE_ENCRYPTED) )
  => \A j \in 1..Len(last.res.out) :
       /\ last.res.out[j].src.key # NoKey
       /\ \E i \in 0..(Len(Get(file).sector_offsets) - 2) :
            /\ last.res.out[j].src.at =
                 SectorSeek(Get(file), Get(archive), Get(file).sector_offsets[i + 1])
            /\ last.res.out[j].src.key = (Get(file).file_key + i) % U32

\* The bytes of the first j pieces of the output.
RECURSIVE Written(_, _)
Written(out, j) == IF j = 0 THEN 0 ELSE Written(out, j - 1) + out[j].n

\* C12: in the sectored read of a COMPRESS or IMPLODE file, every piece of
\* the output was decoded exactly when its sector's length on disk is less
\* than the sector size and less than the bytes of the file still to come,
\* and was copied otherwise.
C12_DecoderChosenByLength ==
  ( /\ last.op = "read" /\ ~Flag(FILE_PATCH_FILE) /\ ~Flag(FILE_SINGLE_UNIT)
    /\ Flag(FILE_COMPRESS) \/ Flag(FILE_IMPLODE) )
  => \A j \in 1..Len(last.res.out) :
       LET piece == last.res.out[j]
           remaining == size(Get(file)) - Written(last.res.out, j - 1)
       IN (piece.via # "copy")
          <=> (piece.src.n < Get(archive).sector_size /\ piece.src.n < remaining)

\* The positions inside its block that the open file is read at: the start
\* of the block (the sector-offset table, a single-unit payload, the data
\* of a file kept as it is) and every entry of the sector-offset table (the
\* data sectors, the checksum sector).
InsideBlock == {0} \cup {Get(file).sector_offsets[j] : j \in DOMAIN Get(file).sector_offsets}

\* C13: every seek of open_file and of File::read to a place of the file's
\* block goes to the archive's base offset plus the block's offset plus a
\* position inside the block.
C13_SeeksStartAtArchiveBase ==
  (last.op \in {"open_file", "read"} /\ IsSome(file))
  => \A j \in DOMAIN last.res.io :
       last.res.io[j].op = "seek"
       => \E inside \in InsideBlock :
            last.res.io[j].at = Get(archive).offset + Get(file).block.offset + inside

\* What a call gives its caller and does to the file, the position it
\* leaves apart.
Outcome(res) == [f \in (DOMAIN res) \ {"pos"} |-> res[f]]

\* The positions a call is made again from: the start and the end of the
\* file.
Elsewhere == {0, image.len}

\* C14: the result of an open_file, File::read or read_user_data call is
\* the result the same call gives from any other file position, whatever
\* call came before it and however that call ended.
C14_ResultIndependentOfPosition ==
  \A q \in Elsewhere :
    /\ last.op = "open_file"
       => Outcome(open_file(Get(archive), image, checks, last.name, q)) = Outcome(last.res)
    /\ last.op = "read"
       => Outcome(read(Get(file), Get(archive), image, checks, size(Get(file)), q))
            = Outcome(last.res)
    /\ last.op = "read_user_data"
       => Outcome(read_user_data(Get(archive), image, q)) = Outcome(last.res)

\* C14 (case reached): read_user_data returns the user data right after a
\* read that failed part-way and left the file at its end.
C14_UserDataAfterFailedRead ==
  /\ last.op = "read_user_data" /\ last.res.kind = "Ok" /\ last.res.n > 0
  /\ last.from.op = "read" /\ last.from.err = "UnexpectedEof"
  /\ last.from.pos = image.len

====
